---- MODULE Spec2Model ----
(***************************************************************************)
(* Red Light Idle Emissions (src/Py.py): the gas-level simulation held in  *)
(* st.session_state, the Streamlit script pass that drives it, and the     *)
(* display scaling of the bars.                                            *)
(*                                                                         *)
(* Numbers.  The program computes in Python floats.  The levels are        *)
(* modelled in fixed point: one level unit is 1/10000 (LevelScale units    *)
(* make 1.0), one tick of time is 0.05 s (TicksPerSec ticks make 1 s), and *)
(* the rate constants are written in hundredths (CO2_PER_VEH = 250 stands  *)
(* for 2.5).  Every product the program forms is then an integer, so the   *)
(* arithmetic below is the program's arithmetic on the decimal values,     *)
(* without the last-place rounding of binary floating point.               *)
(***************************************************************************)
EXTENDS Integers, Sequences, FiniteSets, TLC

VARIABLES
  s,          \* st.session_state
  clock,      \* the wall clock, time.time(), in ticks
  pc,         \* the position of the script pass
  start,      \* "Run N seconds": start
  last,       \* "Run N seconds": last
  run_secs,   \* "Run N seconds": the number input, in ticks
  button,     \* the button pressed in the current pass
  auto,       \* the Auto-refresh checkbox in the current pass
  pre,        \* the session state when the current pass (or call) began
  dts,        \* <<dt>> of the last update_state call, <<>> before the first
  ncalls,     \* update_state calls made so far (in the script: in this pass)
  passes,     \* script passes started so far
  bar         \* the CO2 bar: the level and the scaled height of the last two draws

vars == <<s, clock, pc, start, last, run_secs, button, auto, pre, dts, ncalls, passes, bar>>

---------------------------------------------------------------------------
(* Units *)
TicksPerSec == 4 * 5
LevelScale  == 100 * 100
\* a rate in hundredths per second, as level units per second
Rate(h)     == h * (LevelScale \div 100)
\* what a rate of x level units per second amounts to over dt ticks
Over(x, dt) == (x * dt) \div TicksPerSec

(* Constants, in hundredths *)
CO2_PER_VEH        == 250
CO_PER_VEH         == 160
O2_CONSUME_PER_VEH == 80
DECAY_CO2          == 110
DECAY_CO           == 90
RECOVER_O2         == 80
SLOW_DECAY         == 5

max(a, b) == IF a >= b THEN a ELSE b
min(a, b) == IF a <= b THEN a ELSE b

\* clamp with the lower bound forgotten
clamp_nolow(x, lo, hi) == min(hi, x)

\* clamp with the upper bound forgotten
clamp_nohigh(x, lo, hi) == max(lo, x)

clamp(x, lo, hi) == max(lo, min(hi, x))

\* 100.0, the top of the oxygen scale, in level units
Hundred == 100 * LevelScale

(* st.session_state before init_state has run: "initialized" is absent *)
EmptySession ==
  [initialized |-> FALSE, is_red |-> FALSE, vehicles |-> 0,
   level_co2 |-> 0, level_co |-> 0, level_o2 |-> 0,
   baseline_co2 |-> 0, baseline_co |-> 0, baseline_o2 |-> 0, prev_ts |-> 0]

\* init_state without its early return
init_state_always(st, now) ==
  [initialized |-> TRUE, is_red |-> TRUE, vehicles |-> 12,
   level_co2 |-> 0, level_co |-> 0, level_o2 |-> Hundred,
   baseline_co2 |-> 0, baseline_co |-> 0, baseline_o2 |-> Hundred,
   prev_ts |-> now]

init_state(st, now) ==
  IF st.initialized
  THEN st
  ELSE [initialized |-> TRUE, is_red |-> TRUE, vehicles |-> 12,
        level_co2 |-> 0, level_co |-> 0, level_o2 |-> Hundred,
        baseline_co2 |-> 0, baseline_co |-> 0, baseline_o2 |-> Hundred,
        prev_ts |-> now]

\* decay that subtracts r whatever dt is
decay_nodt(v, b, r, dt) ==
  IF v <= b THEN b ELSE max(b, v - Over(r, TicksPerSec))

\* decay without its floor
decay_nofloor(v, b, r, dt) == v - Over(r, dt)

\* decay(v, b, r) of the green branch; r is in level units per second
decay(v, b, r, dt) ==
  IF v <= b THEN b ELSE max(b, v - Over(r, dt))

\* 1 + vehicles * 0.05 where 1 + vehicles * 0.02 is meant
FlowFactor_asRecover(st) == 100 + st.vehicles * 5

\* 1 + vehicles * 0.02 and 1 + vehicles * 0.05, in hundredths
FlowFactor(st)    == 100 + st.vehicles * 2
RecoverFactor(st) == 100 + st.vehicles * 5

\* the red branch with the slow settle taken before the accumulation
red_branch_settle_first(st, dt) ==
  LET co2 == max(st.baseline_co2, st.level_co2 - Over(Rate(SLOW_DECAY), dt))
      co  == max(st.baseline_co,  st.level_co  - Over(Rate(SLOW_DECAY), dt))
      o2  == st.level_o2 - Over(st.vehicles * Rate(O2_CONSUME_PER_VEH), dt)
  IN  [st EXCEPT
         !.level_o2  = clamp(o2, 0, Hundred),
         !.level_co2 = co2 + Over(st.vehicles * Rate(CO2_PER_VEH), dt),
         !.level_co  = co  + Over(st.vehicles * Rate(CO_PER_VEH), dt)]

\* the red branch with level_co assigned (=) where it is accumulated (+=)
red_branch_assign(st, dt) ==
  LET co2 == st.level_co2 + Over(st.vehicles * Rate(CO2_PER_VEH), dt)
      co  == Over(st.vehicles * Rate(CO_PER_VEH), dt)
      o2  == st.level_o2  - Over(st.vehicles * Rate(O2_CONSUME_PER_VEH), dt)
  IN  [st EXCEPT
         !.level_o2  = clamp(o2, 0, Hundred),
         !.level_co2 = max(st.baseline_co2, co2 - Over(Rate(SLOW_DECAY), dt)),
         !.level_co  = max(st.baseline_co,  co  - Over(Rate(SLOW_DECAY), dt))]

\* if s.is_red: accumulate, clamp the oxygen, then the slow settle
red_branch(st, dt) ==
  LET co2 == st.level_co2 + Over(st.vehicles * Rate(CO2_PER_VEH), dt)
      co  == st.level_co  + Over(st.vehicles * Rate(CO_PER_VEH), dt)
      o2  == st.level_o2  - Over(st.vehicles * Rate(O2_CONSUME_PER_VEH), dt)
  IN  [st EXCEPT
         !.level_o2  = clamp(o2, 0, Hundred),
         !.level_co2 = max(st.baseline_co2, co2 - Over(Rate(SLOW_DECAY), dt)),
         !.level_co  = max(st.baseline_co,  co  - Over(Rate(SLOW_DECAY), dt))]

\* else: the pollutants decay, the oxygen recovers
green_branch(st, dt) ==
  [st EXCEPT
     !.level_co2 = decay(st.level_co2, st.baseline_co2,
                                   DECAY_CO2 * FlowFactor(st), dt),
     !.level_co  = decay(st.level_co, st.baseline_co,
                                   DECAY_CO * FlowFactor(st), dt),
     !.level_o2  = clamp(st.level_o2 + Over(RECOVER_O2 * RecoverFactor(st), dt),
                         0, Hundred)]

update_state(st, dt) ==
  IF st.is_red THEN red_branch(st, dt) ELSE green_branch(st, dt)

\* a level given in thousandths, in level units
Milli(m) == m * (LevelScale \div 1000)

Levels(st) == <<st.level_co2, st.level_co, st.level_o2>>

---------------------------------------------------------------------------
(* scaled_bar.  The pollutant bars are 100 * (1.0 - math.exp(-value/40.0)) *)
(* in IEEE double precision.  What decides how the bar behaves near 100 is *)
(* the rounding of the subtraction: 1.0 - e is a multiple of 2^-53, and it *)
(* is 1.0 itself once e is at most 2^-54.  The model keeps a scaled value  *)
(* as the amount it lies below 100.0, counted in units of 2^-46 (the       *)
(* spacing of the doubles between 64 and 128) and written as two digits    *)
(* <<hi, lo>> in base 2^30.  math.exp is computed to 15 significant bits,  *)
(* which places every rounding below to well within the distance between   *)
(* the exponentials of two whole-number levels.                            *)
Base == 2 ^ 30
One == 2 ^ 15
\* log2(e) / 40 in units of 2^-23, and the same per level unit times 100
Log2eOver40 == 302555
Log2eOver40Frac == 3026
\* ln 2 in units of 2^-15
Ln2 == 22713
\* terms of the series of exp(-y), 0 <= y < ln 2
ExpTerms == 8

\* round n / d to the nearest integer, ties to even
RoundHalfEven(n, d) ==
  LET q == n \div d
      r == n % d
  IN  IF 2 * r < d THEN q
      ELSE IF 2 * r > d THEN q + 1
      ELSE IF q % 2 = 0 THEN q ELSE q + 1

\* the product of two numbers in units of 2^-15
Mul15(a, b) == (a * b + 2 ^ 14) \div One

\* 1 - (y/k) (1 - (y/(k+1)) (1 - ...)), so that ExpSeries(1, y) = exp(-y)
RECURSIVE ExpSeries(_, _)
ExpSeries(k, y) ==
  IF k > ExpTerms THEN One
  ELSE One - (Mul15(y, ExpSeries(k + 1, y)) + k \div 2) \div k

\* math.exp(-value / 40.0) as [P, I], standing for P * 2^-(15 + I) with
\* 2^14 <= P <= 2^15: exp(-x) = 2^-I * exp(-f ln 2), I + f = x log2(e)
exp_neg(value) ==
  LET t == (value \div LevelScale) * Log2eOver40
             + ((value % LevelScale) * Log2eOver40Frac) \div 100
      f == t % 2 ^ 23
      y == ((f \div 2 ^ 8) * Ln2) \div One
  IN  [P |-> ExpSeries(1, y), I |-> t \div 2 ^ 23]

\* 1.0 - e, as the count D of units of 2^-53 the result lies below 1.0,
\* D = <<hi, lo>> in base 2^30: e rounded to the nearest multiple of 2^-53
one_minus(e) ==
  IF e.I >= 38
  THEN IF e.I - 38 >= 17 THEN <<0, 0>>
       ELSE <<0, RoundHalfEven(e.P, 2 ^ (e.I - 38))>>
  ELSE LET sh == 38 - e.I
       IN  IF sh <= 30
           THEN <<e.P \div 2 ^ (30 - sh), (e.P % 2 ^ (30 - sh)) * 2 ^ sh>>
           ELSE <<e.P * 2 ^ (sh - 30), 0>>

\* 100 * r for r = 1.0 - D * 2^-53, as the count of units of 2^-46 the
\* product lies below 100.0: 100 D / 128 rounded to the nearest integer
times100(D) ==
  IF D[1] = 0
  THEN IF D[2] % 32 = 0 THEN <<0, 25 * (D[2] \div 32)>>
       ELSE <<0, RoundHalfEven(25 * D[2], 32)>>
  ELSE LET low == ((25 * D[1]) % 32) * 2 ^ 25 + 25 * (D[2] \div 32)
       IN  <<(25 * D[1]) \div 32 + low \div Base, low % Base>>

\* 0.0 and 100.0 as scaled values
ScaledZero    == <<100 * 2 ^ 16, 0>>
ScaledHundred == <<0, 0>>

\* x < y for two scaled values: x lies further below 100.0
ScaledLess(x, y) == x[1] > y[1] \/ (x[1] = y[1] /\ x[2] > y[2])

\* clamp(x, 0, 100) on a scaled value
clamp_scaled(x) ==
  IF ScaledLess(x, ScaledZero) THEN ScaledZero
  ELSE IF ScaledLess(ScaledHundred, x) THEN ScaledHundred
  ELSE x

\* a level in level units, as a scaled value
FromLevel(v) ==
  LET x   == Hundred - v
      num == (x % 625) * 4096
  IN  <<(x \div 625) * 4096 + num \div 625, (num % 625) * (Base \div 625)>>

\* scaled_bar with the test on the gas inverted
scaled_bar_inverted(value, gas) ==
  IF gas # "Fresh O2"
  THEN FromLevel(clamp(value, 0, Hundred))
  ELSE clamp_scaled(times100(one_minus(exp_neg(value))))

scaled_bar(value, gas) ==
  IF gas = "Fresh O2"
  THEN FromLevel(clamp(value, 0, Hundred))
  ELSE clamp_scaled(times100(one_minus(exp_neg(value))))

NoBar == [value |-> 0, scaled |-> ScaledZero, was_value |-> 0, was_scaled |-> ScaledZero]

---------------------------------------------------------------------------
(* The inputs the sidebar widgets can supply *)
VehiclesMax == 99
VehicleChoices == {0, 12, VehiclesMax}
\* 0.25 s, the cap the driver puts on dt, in ticks
DtCap == 5
DtChoices == {0, 2, DtCap}

Idle ==
  /\ clock = 0 /\ pc = "idle" /\ start = 0 /\ last = 0 /\ run_secs = 0
  /\ button = "none" /\ auto = FALSE /\ dts = <<>> /\ ncalls = 0 /\ passes = 0
  /\ bar = NoBar

driver == <<clock, pc, start, last, run_secs, button, auto, passes, bar>>

---------------------------------------------------------------------------
(* update_state under a free driver: the signal toggled and the vehicle    *)
(* count chosen at will between calls, each dt within [0, 0.25].           *)
MaxCalls == 6

InitAdvance ==
  /\ Idle
  /\ s = init_state(EmptySession, 0)
  /\ pre = s

SetSignal(r) ==
  /\ s' = [s EXCEPT !.is_red = r]
  /\ UNCHANGED <<driver, pre, dts, ncalls>>

SetVehicles(v) ==
  /\ s' = [s EXCEPT !.vehicles = v]
  /\ UNCHANGED <<driver, pre, dts, ncalls>>

Advance(dt) ==
  /\ ncalls < MaxCalls
  /\ pre' = s
  /\ s' = update_state(s, dt)
  /\ dts' = <<dt>>
  /\ ncalls' = ncalls + 1
  /\ UNCHANGED driver

NextAdvance ==
  \/ \E r \in BOOLEAN : SetSignal(r)
  \/ \E v \in VehicleChoices : SetVehicles(v)
  \/ \E dt \in DtChoices : Advance(dt)

SpecAdvance == InitAdvance /\ [][NextAdvance]_vars

---------------------------------------------------------------------------
(* update_state called with dt = 1.0, the step of the worked scenarios *)
NextScenario ==
  \/ \E r \in BOOLEAN : SetSignal(r)
  \/ \E v \in VehicleChoices : SetVehicles(v)
  \/ Advance(TicksPerSec)

SpecScenario == InitAdvance /\ [][NextScenario]_vars

---------------------------------------------------------------------------
(* update_state(0.1) called again and again, the signal and the vehicle    *)
(* count left alone.  The runs start from the state init_state leaves and  *)
(* from a state with level_co2 = 50.0: the one reached from the initial    *)
(* state by red steps of 4 ticks at 99 vehicles, 1 tick at 12 and 9 ticks  *)
(* at 1, followed by 38 green ticks at 0 vehicles.                         *)
MaxRepeat == 460
\* 0.1 s in ticks
TenthSec == TicksPerSec \div 10

Fifty ==
  [init_state(EmptySession, 0) EXCEPT
     !.level_co2 = Milli(50000),
     !.level_co  = Milli(31615),
     !.level_o2  = Milli(84840)]

InitRepeat ==
  /\ Idle
  /\ \E r \in BOOLEAN, v \in 0 .. VehiclesMax,
        st \in {init_state(EmptySession, 0), Fifty} :
        s = [st EXCEPT !.is_red = r, !.vehicles = v]
  /\ pre = s

Repeat ==
  /\ ncalls < MaxRepeat
  /\ pre' = s
  /\ s' = update_state(s, TenthSec)
  /\ dts' = <<TenthSec>>
  /\ ncalls' = ncalls + 1
  /\ UNCHANGED driver

SpecRepeat == InitRepeat /\ [][Repeat]_vars /\ WF_vars(Repeat)

---------------------------------------------------------------------------
(* The Streamlit script.  Every widget event reruns the script from the    *)
(* top against the same st.session_state: init_state(), the sidebar (the   *)
(* toggle, the slider, the two buttons, the "Run N seconds" loop), then    *)
(* the Auto-refresh block.  A button is True only in the pass its click    *)
(* started, so a pass sees at most one of the two buttons pressed.  The    *)
(* clock moves between passes and while the loop sleeps; it may jump       *)
(* ahead (the host was idle) or back (the clock was set).                  *)
MaxPasses == 2
\* the turns of the loop a pass is followed through
MaxLoopCalls == MaxPasses + 1

\* 0.2 s, the step of the "Step 0.2s" button, in ticks
StepDt == 4
\* the clock between two passes: set back, a quick rerun, an idle session
PassGaps  == {0 - 3, 3, 60}
\* the clock across time.sleep(0.1): as asked, a stalled host, set back
SleepGaps == {2, 9, 0 - 3}
\* st.number_input("Run seconds", min_value=1.0, ...), in ticks
RunSecsChoices == {TicksPerSec}
\* st.slider("Vehicles waiting", 0, 99, s.vehicles)
SliderChoices == {12, VehiclesMax}

Init ==
  /\ Idle
  /\ s = EmptySession
  /\ pre = s

\* the script starts: init_state()
Rerun ==
  /\ pc = "idle"
  /\ passes < MaxPasses
  /\ passes' = passes + 1
  /\ \E gap \in PassGaps :
        /\ clock + gap >= 0
        /\ clock' = clock + gap
  /\ pre' = s
  /\ s' = init_state(s, clock')
  /\ dts' = <<>>
  /\ ncalls' = 0
  /\ button' = "none"
  /\ pc' = "sidebar"
  /\ UNCHANGED <<start, last, run_secs, auto, bar>>

\* the toggle, the slider, "Step 0.2s", the number input and "Run N seconds"
Sidebar(toggle, slider, pressed, secs) ==
  /\ pc = "sidebar"
  /\ button' = pressed
  /\ run_secs' = secs
  /\ LET st == [s EXCEPT !.is_red = toggle, !.vehicles = slider]
     IN  IF pressed = "step"
         THEN /\ s' = update_state(st, StepDt)
              /\ dts' = <<StepDt>>
              /\ ncalls' = ncalls + 1
         ELSE /\ s' = st
              /\ UNCHANGED <<dts, ncalls>>
  /\ IF pressed = "run"
     THEN start' = clock /\ last' = clock /\ pc' = "loop"
     ELSE pc' = "auto" /\ UNCHANGED <<start, last>>
  /\ UNCHANGED <<clock, auto, pre, passes, bar>>

\* one turn of: while time.time() - start < run_secs
LoopTurn ==
  /\ pc = "loop"
  /\ clock - start < run_secs
  /\ ncalls < MaxLoopCalls
  /\ LET now == clock
         dt  == clamp(now - last, 0, DtCap)
     IN  /\ last' = now
         /\ s' = update_state(s, dt)
         /\ dts' = <<dt>>
         /\ ncalls' = ncalls + 1
  /\ \E gap \in SleepGaps :
        /\ clock + gap >= 0
        /\ clock' = clock + gap
  /\ UNCHANGED <<pc, start, run_secs, button, auto, pre, passes, bar>>

LoopExit ==
  /\ pc = "loop"
  /\ ~(clock - start < run_secs)
  /\ pc' = "auto"
  /\ UNCHANGED <<s, clock, start, last, run_secs, button, auto, pre, dts, ncalls, passes, bar>>

\* the Auto-refresh block advancing whether or not the box is checked
AutoBlock_always(checked) ==
  /\ pc = "auto"
  /\ auto' = checked
  /\ LET now == clock
         dt  == clamp(now - s.prev_ts, 0, DtCap)
     IN  /\ s' = update_state([s EXCEPT !.prev_ts = now], dt)
         /\ dts' = <<dt>>
         /\ ncalls' = ncalls + 1
  /\ pc' = "idle"
  /\ start' = 0 /\ last' = 0
  /\ UNCHANGED <<clock, run_secs, button, pre, passes, bar>>

\* the Auto-refresh checkbox and what follows it
AutoBlock(checked) ==
  /\ pc = "auto"
  /\ auto' = checked
  /\ IF checked
     THEN LET now == clock
              dt  == clamp(now - s.prev_ts, 0, DtCap)
          IN  /\ s' = update_state([s EXCEPT !.prev_ts = now], dt)
              /\ dts' = <<dt>>
              /\ ncalls' = ncalls + 1
     ELSE /\ s' = [s EXCEPT !.prev_ts = clock]
          /\ UNCHANGED <<dts, ncalls>>
  /\ pc' = "idle"
  /\ start' = 0 /\ last' = 0  \* the script's locals end with the pass
  /\ UNCHANGED <<clock, run_secs, button, pre, passes, bar>>

Next ==
  \/ Rerun
  \/ \E toggle \in BOOLEAN, slider \in SliderChoices,
        pressed \in {"none", "step", "run"}, secs \in RunSecsChoices :
        Sidebar(toggle, slider, pressed, secs)
  \/ LoopTurn
  \/ LoopExit
  \/ \E checked \in BOOLEAN : AutoBlock(checked)

Spec == Init /\ [][Next]_vars

---------------------------------------------------------------------------
(* The CO2 bar drawn at whole-number levels, from 0 up: between two draws  *)
(* the level has risen by one of a few amounts.                            *)
MaxBarLevel == 1600
BarRises == {1, 3, 40}

InitBar ==
  /\ Idle
  /\ s = init_state(EmptySession, 0)
  /\ pre = s

Draw(rise) ==
  /\ s.level_co2 + rise * LevelScale <= MaxBarLevel * LevelScale
  /\ pre' = s
  /\ s' = [s EXCEPT !.level_co2 = @ + rise * LevelScale]
  /\ bar' = [value      |-> s'.level_co2,
             scaled     |-> scaled_bar(s'.level_co2, "CO2"),
             was_value  |-> s.level_co2,
             was_scaled |-> scaled_bar(s.level_co2, "CO2")]
  /\ UNCHANGED <<clock, pc, start, last, run_secs, button, auto, dts, ncalls, passes>>

NextBar == \E rise \in BarRises : Draw(rise)

SpecBar == InitBar /\ [][NextBar]_vars

---------------------------------------------------------------------------
(* The claims about update_state *)

\* C1: after any sequence of update_state calls with each dt in [0, 0.25],
\* the signal toggled and the vehicle count chosen freely between calls,
\* 0 <= level_o2 <= 100, level_co2 >= baseline_co2 = 0 and
\* level_co >= baseline_co = 0.
C1_LevelsInRange ==
  /\ 0 <= s.level_o2 /\ s.level_o2 <= Hundred
  /\ s.baseline_co2 = 0 /\ s.level_co2 >= s.baseline_co2
  /\ s.baseline_co = 0 /\ s.level_co >= s.baseline_co

\* the oxygen has been driven into its lower clamp
C1_Witness ==
  /\ ncalls > 0 /\ s.level_o2 = 0 /\ s.level_co2 > 0
  /\ pre.is_red /\ pre.level_o2 > 0
  /\ pre.level_o2 < Over(pre.vehicles * Rate(O2_CONSUME_PER_VEH), dts[1])

StartState == init_state(EmptySession, 0)

AfterRedSecond ==
  [StartState EXCEPT !.is_red = FALSE, !.level_co2 = Milli(29950),
                     !.level_co = Milli(19150), !.level_o2 = Milli(90400)]

\* C3: from (12 vehicles, levels 29.95, 19.15, 90.4) with the signal green,
\* one call update_state(1.0) yields level_co2 = 28.586, level_co = 18.034
\* and level_o2 = 91.68, none of them at a clamp.
C3_GreenSecond ==
  (pre = AfterRedSecond /\ dts = <<TicksPerSec>>)
    => /\ Levels(s) = <<Milli(28586), Milli(18034), Milli(91680)>>
       /\ s.level_co2 = pre.level_co2 - Over(DECAY_CO2 * FlowFactor(pre), dts[1])
       /\ s.level_co = pre.level_co - Over(DECAY_CO * FlowFactor(pre), dts[1])
       /\ s.level_o2 = pre.level_o2 + Over(RECOVER_O2 * RecoverFactor(pre), dts[1])

C3_Witness ==
  pre = AfterRedSecond /\ dts = <<TicksPerSec>> /\ ncalls = 2

\* C4: in the red phase with a fixed vehicle count above 10, every call
\* update_state(0.1) strictly increases level_co2 and level_co and does not
\* increase level_o2, and once level_o2 is 0 it stays 0.
C4_RedMonotone ==
  [][(s.is_red /\ s.vehicles > 10)
       => /\ s'.level_co2 > s.level_co2
          /\ s'.level_co > s.level_co
          /\ s'.level_o2 <= s.level_o2
          /\ (s.level_o2 = 0 => s'.level_o2 = 0)]_vars

\* a red call made with the oxygen already at 0
C4_Witness ==
  /\ s.is_red /\ s.vehicles > 10 /\ dts = <<TenthSec>>
  /\ pre.level_o2 = 0 /\ s.level_o2 = 0 /\ s.level_co2 > pre.level_co2

\* C5: in the green phase, for any vehicle count in [0, 99], update_state(0.1)
\* never increases level_co2, strictly decreases it while it is above
\* baseline_co2, never takes it below baseline_co2, and from level_co2 = 50
\* the level reaches the baseline after finitely many calls and stays there.
C5_GreenDecay ==
  /\ [][~s.is_red
          => /\ s'.level_co2 <= s.level_co2
             /\ (s.level_co2 > s.baseline_co2 => s'.level_co2 < s.level_co2)
             /\ s'.level_co2 >= s.baseline_co2]_vars
  /\ (~s.is_red => <>[](s.level_co2 = s.baseline_co2 /\ s.baseline_co2 = 0))

\* the green call that took level_co2 from above the baseline onto it
C5_Witness ==
  /\ ~s.is_red /\ dts = <<TenthSec>>
  /\ pre.level_co2 > 0 /\ pre.level_co2 < Over(DECAY_CO2 * FlowFactor(pre), dts[1])
  /\ s.level_co2 = 0

\* C6: update_state(0) leaves level_co2, level_co and level_o2 as they were,
\* in either phase.
C6_ZeroStep ==
  dts = <<0>> => Levels(s) = Levels(pre)

\* a zero step taken in the green phase with pollutant still in the air
C6_Witness ==
  /\ dts = <<0>> /\ ~pre.is_red /\ pre.level_co2 > 0 /\ pre.level_o2 < Hundred
  /\ pre.vehicles > 0

---------------------------------------------------------------------------
(* The claims about the script *)

\* the levels init_state gives a new session
InitialLevels == <<0, 0, Hundred>>

\* C7 as stated: the program's reset, init_state, leaves level_co2 = 0,
\* level_co = 0 and level_o2 = 100 whatever update_state calls preceded it.
C7_ResetRestores ==
  pc = "sidebar" => Levels(s) = InitialLevels

\* C7 as amended: init_state sets the levels 0, 0, 100 (and is_red, vehicles,
\* the baselines and prev_ts) only in a session not yet initialized; in an
\* initialized session it changes nothing, so the levels stay as the earlier
\* update_state calls left them.
C7_InitOnce ==
  pc = "sidebar"
    => IF pre.initialized
       THEN s = pre
       ELSE /\ Levels(s) = InitialLevels
            /\ s.is_red /\ s.vehicles = 12 /\ s.prev_ts = clock
            /\ s.baseline_co2 = 0 /\ s.baseline_co = 0 /\ s.baseline_o2 = Hundred
            /\ s.initialized

\* init_state has run on a session whose levels had moved
C7_Witness ==
  /\ pc = "sidebar" /\ pre.initialized
  /\ pre.level_co2 > 0 /\ pre.level_o2 < Hundred /\ s.level_co2 > 0

\* what one update_state(0.2) makes of the levels the pass began with, under
\* the signal and the vehicle count the pass read from the widgets
SingleStep ==
  Levels(update_state([init_state(pre, 0) EXCEPT !.is_red = s.is_red,
                                                 !.vehicles = s.vehicles],
                      StepDt))

\* C9 as stated: in every pass in which "Step 0.2s" is pressed, whatever the
\* Auto-refresh checkbox is set to, the levels after the pass are those of a
\* single update_state(0.2).
C9_StepIsOneAdvance ==
  (pc = "idle" /\ button = "step") => Levels(s) = SingleStep

\* C9 as amended: in every pass in which "Step 0.2s" is pressed and
\* Auto-refresh is unchecked, update_state is called once, with 0.2, and the
\* levels after the pass are those of that single call.
C9_StepAloneIsOneAdvance ==
  (pc = "idle" /\ button = "step" /\ ~auto)
    => /\ Levels(s) = SingleStep
       /\ ncalls = 1 /\ dts = <<StepDt>>

C9_Witness ==
  /\ pc = "idle" /\ button = "step" /\ ~auto
  /\ pre.initialized /\ Levels(s) # Levels(pre)

\* C10: every update_state call the script makes passes 0 <= dt <= 0.25,
\* whatever the clock did since the last sample, and a pass without
\* auto-refresh leaves prev_ts at the current time.
C10_DtClamped ==
  /\ dts # <<>> => (0 <= dts[1] /\ dts[1] <= DtCap)
  /\ (pc = "idle" /\ passes > 0 /\ ~auto) => s.prev_ts = clock

\* an auto-refresh pass after the session sat idle for seconds
C10_Witness ==
  /\ pc = "idle" /\ auto /\ pre.initialized
  /\ clock - pre.prev_ts > TicksPerSec
  /\ dts = <<DtCap>>

---------------------------------------------------------------------------
(* The claim about scaled_bar *)

\* the whole-number level from which the CO2 bar is exactly 100.0
Saturation == 1498 * LevelScale
\* the last whole-number level that draws a bar higher than every lower one
\* (1296 and 1297 are the first two to draw the same height)
StrictUpTo == 1296 * LevelScale

\* C8 as stated: scaled_bar(v, CO2) is 0 at v = 0, strictly increasing in v
\* for all v >= 0 and stays in [0, 100), never reaching 100.
C8_StrictlyIncreasing ==
  /\ bar.value = 0 => bar.scaled = ScaledZero
  /\ bar.was_value < bar.value => ScaledLess(bar.was_scaled, bar.scaled)
  /\ ScaledLess(bar.scaled, ScaledHundred)

\* C8 as amended: scaled_bar(v, CO2) is 0 at v = 0, never decreases as v
\* rises, is at most 100 and is exactly 100 from v = 1498 on (below that it
\* is less than 100, and among whole-number levels up to v = 1296 a higher
\* level draws a strictly higher bar).
C8_Saturating ==
  /\ bar.value = 0 => bar.scaled = ScaledZero
  /\ bar.was_value < bar.value => ~ScaledLess(bar.scaled, bar.was_scaled)
  /\ (bar.was_value < bar.value /\ bar.value <= StrictUpTo)
       => ScaledLess(bar.was_scaled, bar.scaled)
  /\ ~ScaledLess(ScaledHundred, bar.scaled)
  /\ ~ScaledLess(bar.scaled, ScaledZero)
  /\ bar.scaled = ScaledHundred <=> bar.value >= Saturation

\* two different levels drawn at the same height, 100.0
C8_Witness ==
  /\ bar.was_value >= Saturation
  /\ bar.was_value < bar.value
  /\ bar.was_scaled = ScaledHundred /\ bar.scaled = ScaledHundred

====
